---- MODULE Spec2Model ----
(***************************************************************************)
(* Model of the unified context-item store (zustand store useContextItems  *)
(* with its factory helpers) and of the Vercel provisioning server action  *)
(* (setupProject / getVercelDeployment).                                   *)
(***************************************************************************)
EXTENDS Integers, Sequences, FiniteSets, TLC

(* ------------------------------------------------------ bounds and inputs *)
\* the most items the six collections hold together
MaxItems == 2

\* createdAt values and clock readings (milliseconds)
Times == {100, 200}

\* the content of the vault's files at each clock reading: the notes are
\* edited between the two readings
ContentAt(t) == IF t = 100 THEN "p" ELSE "q"

(* ------------------------------------------------------------ item types *)
ContextItemType == {"file", "folder", "youtube", "tag", "screenpipe", "search"}

collectionMap ==
  [type \in ContextItemType |->
     CASE type = "file" -> "files"
       [] type = "folder" -> "folders"
       [] type = "youtube" -> "youtubeVideos"
       [] type = "tag" -> "tags"
       [] type = "screenpipe" -> "screenpipe"
       [] type = "search" -> "searchResults"]

\* the JavaScript null of `currentFile: FileContextItem | null`
null == [id |-> "", type |-> "null", createdAt |-> 0, data |-> ""]

\* a context item: id, type and createdAt of BaseContextItem and its variants;
\* data stands for the variant's payload fields (content, transcript, query ...)
Item(id, type, createdAt, data) ==
  [id |-> id, type |-> type, createdAt |-> createdAt, data |-> data]

\* inputs the callers pass
FilePaths == {"a.md", "b.md"}
FolderPaths == {"1", "2", "notes"}
VideoIds == {"v"}
TagNames == {"x"}
Queries == {"q1"}

(* ------------------------------------------- JavaScript object semantics *)
\* A Record<string, Item> is kept as the sequence of its values in own
\* property order: integer-like keys ascending, then the other keys in the
\* order in which they were created.
ArrayIndexKeys == {ToString(n) : n \in 0..9}

IsArrayIndex(key) == key \in ArrayIndexKeys

ToNumber(key) == CHOOSE n \in 0..9 : ToString(n) = key

Keys(coll) == {coll[i].id : i \in 1..Len(coll)}

IndexOf(coll, key) == CHOOSE i \in 1..Len(coll) : coll[i].id = key

\* number of integer-like keys of coll that are smaller than key
SmallerIndexKeys(coll, key) ==
  Cardinality({i \in 1..Len(coll) :
                 IsArrayIndex(coll[i].id) /\ ToNumber(coll[i].id) < ToNumber(key)})

InsertAt(coll, pos, item) ==
  [i \in 1..(Len(coll) + 1) |->
     IF i < pos THEN coll[i] ELSE IF i = pos THEN item ELSE coll[i - 1]]

\* mutant of Put: an id already held keeps its first item
PutKeepFirst(coll, item) ==
  IF item.id \in Keys(coll)
    THEN coll
    ELSE IF IsArrayIndex(item.id)
      THEN InsertAt(coll, SmallerIndexKeys(coll, item.id) + 1, item)
      ELSE Append(coll, item)

\* { ...coll, [item.id]: item }
Put(coll, item) ==
  IF item.id \in Keys(coll)
    THEN [coll EXCEPT ![IndexOf(coll, item.id)] = item]
    ELSE IF IsArrayIndex(item.id)
      THEN InsertAt(coll, SmallerIndexKeys(coll, item.id) + 1, item)
      ELSE Append(coll, item)

\* const collection = { ...coll }; delete collection[id]
Delete(coll, id) ==
  IF id \in Keys(coll)
    THEN LET k == IndexOf(coll, id)
         IN [i \in 1..(Len(coll) - 1) |-> IF i < k THEN coll[i] ELSE coll[i + 1]]
    ELSE coll

\* Object.values(coll)
ObjectValues(coll) == coll

(* ---------------------------------------------------- Array.prototype.sort *)
\* mutant of compare: oldest first
compareAscending(a, b) == a.createdAt - b.createdAt

\* the comparator (a, b) => b.createdAt - a.createdAt
compare(a, b) == b.createdAt - a.createdAt

\* mutant of InsertSorted: x goes ahead of the elements it ties with
RECURSIVE InsertSortedUnstable(_, _)
InsertSortedUnstable(sorted, x) ==
  IF sorted = <<>> THEN <<x>>
  ELSE IF compare(Head(sorted), x) < 0
    THEN <<Head(sorted)>> \o InsertSortedUnstable(Tail(sorted), x)
    ELSE <<x>> \o sorted

\* insert x behind every element that does not sort after it (stable)
RECURSIVE InsertSorted(_, _)
InsertSorted(sorted, x) ==
  IF sorted = <<>> THEN <<x>>
  ELSE IF compare(Head(sorted), x) <= 0
    THEN <<Head(sorted)>> \o InsertSorted(Tail(sorted), x)
    ELSE <<x>> \o sorted

RECURSIVE sort(_)
sort(arr) ==
  IF arr = <<>> THEN <<>>
  ELSE InsertSorted(sort(SubSeq(arr, 1, Len(arr) - 1)), arr[Len(arr)])

(* ------------------------------------------------------------- the store *)
VARIABLES state, lastOp
VARIABLES vercelTokens, call, deployment

storeVars == <<state, lastOp>>
deployVars == <<vercelTokens, call, deployment>>
vars == <<state, lastOp, vercelTokens, call, deployment>>

\* create<ContextItemsState>(...): the initial state
InitialState ==
  [files |-> <<>>, folders |-> <<>>, youtubeVideos |-> <<>>, tags |-> <<>>,
   screenpipe |-> <<>>, searchResults |-> <<>>,
   currentFile |-> null, includeCurrentFile |-> TRUE]

addFile(s, file) == [s EXCEPT !.files = Put(s.files, file)]

addFolder(s, folder) == [s EXCEPT !.folders = Put(s.folders, folder)]

addYouTubeVideo(s, video) == [s EXCEPT !.youtubeVideos = Put(s.youtubeVideos, video)]

addTag(s, tag) == [s EXCEPT !.tags = Put(s.tags, tag)]

addScreenpipe(s, data) == [s EXCEPT !.screenpipe = Put(s.screenpipe, data)]

addSearchResults(s, search) == [s EXCEPT !.searchResults = Put(s.searchResults, search)]

\* mutant of removeItem: the collection is rebuilt without the spread
removeItemNoSpread(s, type, id) ==
  [s EXCEPT ![collectionMap[type]] = Delete(<<>>, id)]

\* mutant of removeItem: removing the current file's id empties the slot too
removeItemClearsCurrent(s, type, id) ==
  LET collectionKey == collectionMap[type]
      collection == Delete(s[collectionKey], id)
  IN [s EXCEPT ![collectionKey] = collection,
               !.currentFile = IF type = "file" /\ s.currentFile.id = id
                                 THEN null ELSE s.currentFile]

removeItem(s, type, id) ==
  LET collectionKey == collectionMap[type]
      collection == Delete(s[collectionKey], id)
  IN [s EXCEPT ![collectionKey] = collection]

setCurrentFile(s, file) == [s EXCEPT !.currentFile = file]

\* mutant of toggleCurrentFile: the flag is switched off, never back on
toggleOff(s) == [s EXCEPT !.includeCurrentFile = FALSE]

toggleCurrentFile(s) == [s EXCEPT !.includeCurrentFile = ~s.includeCurrentFile]

clearAll(s) ==
  [s EXCEPT !.files = <<>>, !.folders = <<>>, !.youtubeVideos = <<>>, !.tags = <<>>,
            !.screenpipe = <<>>, !.searchResults = <<>>,
            !.includeCurrentFile = FALSE, !.currentFile = null]

\* the six Object.values spread into one array, before the sort
allValues(s) ==
  ObjectValues(s.files) \o ObjectValues(s.folders) \o ObjectValues(s.youtubeVideos)
    \o ObjectValues(s.tags) \o ObjectValues(s.screenpipe) \o ObjectValues(s.searchResults)

\* mutant of getUnifiedContext: the current file is added before the sort
getUnifiedContextSortAll(s) ==
  IF s.includeCurrentFile /\ s.currentFile # null
    THEN sort(<<s.currentFile>> \o allValues(s))
    ELSE sort(allValues(s))

getUnifiedContext(s) ==
  LET allItems == sort(allValues(s))
  IN IF s.includeCurrentFile /\ s.currentFile # null
       THEN <<s.currentFile>> \o allItems
       ELSE allItems

getItemsByType(s, type) == ObjectValues(s[collectionMap[type]])

(* ------------------------------------------------------- store operations *)
TotalItems(s) == Len(allValues(s))

\* the model follows the store while it holds at most MaxItems items
Fits(s) == TotalItems(s) <= MaxItems

\* lastOp records the last call: which store method or helper it was, the
\* item it added (null when it added none) and whether the id it was given
\* was already a key of the collection
Op(name, hit, item) == [name |-> name, hit |-> hit, item |-> item]

Has(s, type, id) == id \in Keys(s[collectionMap[type]])

FileItems == {Item(id, "file", t, ContentAt(t)) : id \in FilePaths, t \in Times}
FolderItems == {Item(id, "folder", t, "p") : id \in FolderPaths, t \in Times}
YouTubeItems == {Item("youtube-" \o v, "youtube", t, "p") : v \in VideoIds, t \in Times}
TagItems == {Item("tag-" \o n, "tag", t, "p") : n \in TagNames, t \in Times}
ScreenpipeItems == {Item("screenpipe-context", "screenpipe", t, "p") : t \in Times}
SearchItems == {Item("search-" \o ToString(k), "search", t, "q1") : k \in Times, t \in Times}

CallAddFile ==
  \E file \in FileItems :
    /\ state' = addFile(state, file)
    /\ Fits(state')
    /\ lastOp' = Op("addFile", Has(state, "file", file.id), file)
    /\ UNCHANGED deployVars

CallAddFolder ==
  \E folder \in FolderItems :
    /\ state' = addFolder(state, folder)
    /\ Fits(state')
    /\ lastOp' = Op("addFolder", Has(state, "folder", folder.id), folder)
    /\ UNCHANGED deployVars

CallAddYouTubeVideo ==
  \E video \in YouTubeItems :
    /\ state' = addYouTubeVideo(state, video)
    /\ Fits(state')
    /\ lastOp' = Op("addYouTubeVideo", Has(state, "youtube", video.id), video)
    /\ UNCHANGED deployVars

CallAddTag ==
  \E tag \in TagItems :
    /\ state' = addTag(state, tag)
    /\ Fits(state')
    /\ lastOp' = Op("addTag", Has(state, "tag", tag.id), tag)
    /\ UNCHANGED deployVars

CallAddScreenpipe ==
  \E data \in ScreenpipeItems :
    /\ state' = addScreenpipe(state, data)
    /\ Fits(state')
    /\ lastOp' = Op("addScreenpipe", Has(state, "screenpipe", data.id), data)
    /\ UNCHANGED deployVars

CallAddSearchResults ==
  \E search \in SearchItems :
    /\ state' = addSearchResults(state, search)
    /\ Fits(state')
    /\ lastOp' = Op("addSearchResults", Has(state, "search", search.id), search)
    /\ UNCHANGED deployVars

\* the ids a caller may ask to remove, present or not
RemoveIds(type) ==
  CASE type = "file" -> FilePaths
    [] type = "folder" -> FolderPaths
    [] type = "youtube" -> {"youtube-" \o v : v \in VideoIds}
    [] type = "tag" -> {"tag-" \o n : n \in TagNames}
    [] type = "screenpipe" -> {"screenpipe-context"}
    [] type = "search" -> {"search-" \o ToString(k) : k \in Times}

CallRemoveItem ==
  \E type \in ContextItemType :
    \E id \in RemoveIds(type) :
      /\ state' = removeItem(state, type, id)
      /\ Fits(state')
      /\ lastOp' = Op("removeItem", Has(state, type, id), null)
      /\ UNCHANGED deployVars

\* the files the caller may open: one the collections may hold too, one they never hold
CurrentFiles ==
  {null, Item("a.md", "file", 100, ContentAt(100)), Item("c.md", "file", 200, ContentAt(200))}

CallSetCurrentFile ==
  \E file \in CurrentFiles :
    /\ state' = setCurrentFile(state, file)
    /\ Fits(state')
    /\ lastOp' = Op("setCurrentFile", FALSE, null)
    /\ UNCHANGED deployVars

CallToggleCurrentFile ==
  /\ state' = toggleCurrentFile(state)
  /\ Fits(state')
  /\ lastOp' = Op("toggleCurrentFile", FALSE, null)
  /\ UNCHANGED deployVars

CallClearAll ==
  /\ state' = clearAll(state)
  /\ Fits(state')
  /\ lastOp' = Op("clearAll", FALSE, null)
  /\ UNCHANGED deployVars

(* --------------------------------------------------------- factory helpers *)
\* Date.now(): a reading of the wall clock
DateNow == Times

addFileContext ==
  \E path \in FilePaths, t \in DateNow :
    LET file == Item(path, "file", t, ContentAt(t))
    IN /\ state' = addFile(state, file)
       /\ Fits(state')
       /\ lastOp' = Op("addFileContext", Has(state, "file", file.id), file)
       /\ UNCHANGED deployVars

addYouTubeContext ==
  \E v \in VideoIds, t \in DateNow :
    LET video == Item("youtube-" \o v, "youtube", t, "p")
    IN /\ state' = addYouTubeVideo(state, video)
       /\ Fits(state')
       /\ lastOp' = Op("addYouTubeContext", Has(state, "youtube", video.id), video)
       /\ UNCHANGED deployVars

addFolderContext ==
  \E folderPath \in FolderPaths, t \in DateNow :
    LET folder == Item(folderPath, "folder", t, "p")
    IN /\ state' = addFolder(state, folder)
       /\ Fits(state')
       /\ lastOp' = Op("addFolderContext", Has(state, "folder", folder.id), folder)
       /\ UNCHANGED deployVars

addTagContext ==
  \E tagName \in TagNames, t \in DateNow :
    LET tag == Item("tag-" \o tagName, "tag", t, "p")
    IN /\ state' = addTag(state, tag)
       /\ Fits(state')
       /\ lastOp' = Op("addTagContext", Has(state, "tag", tag.id), tag)
       /\ UNCHANGED deployVars

addScreenpipeContext ==
  \E t \in DateNow :
    LET data == Item("screenpipe-context", "screenpipe", t, "p")
    IN /\ state' = addScreenpipe(state, data)
       /\ Fits(state')
       /\ lastOp' = Op("addScreenpipeContext", Has(state, "screenpipe", data.id), data)
       /\ UNCHANGED deployVars

\* Date.now() is read twice: for the id, then for createdAt
addSearchContext ==
  \E query \in Queries, t1 \in DateNow :
    \E t2 \in {t \in DateNow : t >= t1} :
      LET search == Item("search-" \o ToString(t1), "search", t2, query)
      IN /\ state' = addSearchResults(state, search)
         /\ Fits(state')
         /\ lastOp' = Op("addSearchContext", Has(state, "search", search.id), search)
         /\ UNCHANGED deployVars

NoOp == Op("init", FALSE, null)

StoreInit ==
  /\ state = InitialState
  /\ lastOp = NoOp

DeployIdle ==
  /\ vercelTokens = <<>>
  /\ call = <<>>
  /\ deployment = <<>>

Init == StoreInit /\ DeployIdle

Next ==
  \/ CallAddFile
  \/ CallAddFolder
  \/ CallAddYouTubeVideo
  \/ CallAddTag
  \/ CallAddScreenpipe
  \/ CallAddSearchResults
  \/ CallRemoveItem
  \/ CallSetCurrentFile
  \/ CallToggleCurrentFile
  \/ CallClearAll
  \/ addFileContext
  \/ addYouTubeContext
  \/ addFolderContext
  \/ addTagContext
  \/ addScreenpipeContext
  \/ addSearchContext

Spec == Init /\ [][Next]_vars

(* ------------------------------------- setupProject / getVercelDeployment *)
Users == {"user_1", "user_2"}

\* the callers of the server actions; auth() gives no userId for a guest
Callers == Users \cup {"guest"}

auth(caller) == IF caller \in Users THEN caller ELSE "null"

VercelTokenArgs == {"", "tok_a", "tok_b"}
OpenaiKeyArgs == {"", "sk"}
ProjectIds == {"prj_1"}
DeploymentUrls == {"one.vercel.app"}

\* a record of the vercelTokens table
TokenRow(userId, token, projectId, deploymentUrl) ==
  [userId |-> userId, token |-> token, projectId |-> projectId,
   deploymentUrl |-> deploymentUrl]

\* db.select().from(vercelTokens).where(eq(vercelTokens.userId, userId)):
\* the array of the matching records
SelectWhere(table, userId) ==
  LET Matches(row) == row.userId = userId
  IN SelectSeq(table, Matches)

\* if (existingToken): the value tested is an array, and every array, the
\* empty one too, is truthy
Truthy(array) == TRUE

\* db.update(vercelTokens).set({ token }).where(eq(vercelTokens.userId, userId))
UpdateToken(table, userId, token) ==
  [i \in 1..Len(table) |->
     IF table[i].userId = userId THEN [table[i] EXCEPT !.token = token] ELSE table[i]]

\* db.insert(vercelTokens).values({ userId, token })
InsertToken(table, userId, token) ==
  Append(table, TokenRow(userId, token, "null", "null"))

\* db.update(vercelTokens).set({ projectId, deploymentUrl }).where(...)
UpdateProject(table, userId, projectId, deploymentUrl) ==
  [i \in 1..Len(table) |->
     IF table[i].userId = userId
       THEN [table[i] EXCEPT !.projectId = projectId, !.deploymentUrl = deploymentUrl]
       ELSE table[i]]

\* one caller's call of setupProject: where it stands and its locals
IdleCall ==
  [pc |-> "idle", userId |-> "null", vercelToken |-> "", openaiKey |-> "",
   existingToken |-> <<>>, projectId |-> "null", url |-> "null"]

NoResult == [called |-> FALSE, value |-> "null"]

\* setupProject(vercelToken, openaiKey) up to the first await
SetupProjectBegin(c) ==
  \E vercelToken \in VercelTokenArgs, openaiKey \in OpenaiKeyArgs :
    /\ call[c].pc \in {"idle", "returned", "threw"}
    /\ call' = [call EXCEPT ![c] =
                  IF auth(c) = "null"
                    THEN [IdleCall EXCEPT !.pc = "threw"]
                    ELSE [IdleCall EXCEPT !.pc = "license", !.userId = auth(c),
                                          !.vercelToken = vercelToken,
                                          !.openaiKey = openaiKey]]
    /\ deployment' = [deployment EXCEPT ![c] = NoResult]
    /\ UNCHANGED <<vercelTokens, storeVars>>

\* createLicenseKeyFromUserId resolves or rejects; then the argument checks
SetupProjectCheckArgs(c) ==
  /\ call[c].pc = "license"
  /\ \E licensed \in BOOLEAN :
       call' = [call EXCEPT ![c].pc =
                  IF ~licensed \/ call[c].vercelToken = "" \/ call[c].openaiKey = ""
                    THEN "threw" ELSE "select"]
  /\ UNCHANGED <<vercelTokens, deployment, storeVars>>

SetupProjectSelect(c) ==
  /\ call[c].pc = "select"
  /\ call' = [call EXCEPT ![c].pc = "store",
                          ![c].existingToken = SelectWhere(vercelTokens, call[c].userId)]
  /\ UNCHANGED <<vercelTokens, deployment, storeVars>>

\* store or update the token
SetupProjectStore(c) ==
  /\ call[c].pc = "store"
  /\ vercelTokens' =
       IF Truthy(call[c].existingToken)
         THEN UpdateToken(vercelTokens, call[c].userId, call[c].vercelToken)
         ELSE InsertToken(vercelTokens, call[c].userId, call[c].vercelToken)
  /\ call' = [call EXCEPT ![c].pc = "createProject"]
  /\ UNCHANGED <<deployment, storeVars>>

\* vercel.projects.createProject resolves with a project or rejects
SetupProjectCreateProject(c) ==
  /\ call[c].pc = "createProject"
  /\ \/ \E id \in ProjectIds :
          call' = [call EXCEPT ![c].pc = "createDeployment", ![c].projectId = id]
     \/ call' = [call EXCEPT ![c].pc = "threw"]
  /\ UNCHANGED <<vercelTokens, deployment, storeVars>>

\* vercel.deployments.createDeployment resolves with a deployment or rejects
SetupProjectCreateDeployment(c) ==
  /\ call[c].pc = "createDeployment"
  /\ \/ \E url \in DeploymentUrls :
          call' = [call EXCEPT ![c].pc = "update", ![c].url = url]
     \/ call' = [call EXCEPT ![c].pc = "threw"]
  /\ UNCHANGED <<vercelTokens, deployment, storeVars>>

\* update the token record with the project details, and return success
SetupProjectUpdate(c) ==
  /\ call[c].pc = "update"
  /\ vercelTokens' =
       UpdateProject(vercelTokens, call[c].userId, call[c].projectId, call[c].url)
  /\ call' = [call EXCEPT ![c].pc = "returned"]
  /\ UNCHANGED <<deployment, storeVars>>

\* getVercelDeployment(): the first record of the user, or null
getVercelDeployment(c) ==
  /\ auth(c) # "null"
  /\ call[c].pc \in {"idle", "returned", "threw"}
  /\ LET tokenRecord == SelectWhere(vercelTokens, auth(c))
     IN deployment' = [deployment EXCEPT ![c] =
          [called |-> TRUE,
           value |-> IF tokenRecord # <<>>
                       THEN [deploymentUrl |-> tokenRecord[1].deploymentUrl,
                             projectId |-> tokenRecord[1].projectId]
                       ELSE "null"]]
  /\ UNCHANGED <<vercelTokens, call, storeVars>>

\* the table before the first call: empty, or holding records of earlier setups
InitialTables ==
  {<<>>,
   <<TokenRow("user_1", "tok_old", "null", "null")>>,
   <<TokenRow("user_1", "tok_old", "prj_0", "zero.vercel.app"),
     TokenRow("user_2", "tok_old", "null", "null")>>}

DeployInit ==
  /\ StoreInit
  /\ vercelTokens \in InitialTables
  /\ call = [c \in Callers |-> IdleCall]
  /\ deployment = [c \in Callers |-> NoResult]

DeployNext ==
  \E c \in Callers :
    \/ SetupProjectBegin(c)
    \/ SetupProjectCheckArgs(c)
    \/ SetupProjectSelect(c)
    \/ SetupProjectStore(c)
    \/ SetupProjectCreateProject(c)
    \/ SetupProjectCreateDeployment(c)
    \/ SetupProjectUpdate(c)
    \/ getVercelDeployment(c)

DeploySpec == DeployInit /\ [][DeployNext]_vars

(* ------------------------------------------------------ auxiliary notions *)
AddNames ==
  {"addFile", "addFolder", "addYouTubeVideo", "addTag", "addScreenpipe", "addSearchResults",
   "addFileContext", "addFolderContext", "addYouTubeContext", "addTagContext",
   "addScreenpipeContext", "addSearchContext"}

CollectionNames ==
  {"files", "folders", "youtubeVideos", "tags", "screenpipe", "searchResults"}

Range(seq) == {seq[i] : i \in 1..Len(seq)}

Count(seq, x) == Cardinality({i \in 1..Len(seq) : seq[i] = x})

\* seq holds the same items as other, each as often
SameItems(seq, other) ==
  /\ Len(seq) = Len(other)
  /\ \A x \in Range(seq) \cup Range(other) : Count(seq, x) = Count(other, x)

Descending(seq) ==
  \A i, j \in 1..Len(seq) : i < j => seq[i].createdAt >= seq[j].createdAt

CurrentFileShown(s) == s.includeCurrentFile /\ s.currentFile # null

\* getUnifiedContext() without the prepended current-file item
Registry(s) ==
  IF CurrentFileShown(s) THEN Tail(getUnifiedContext(s)) ELSE getUnifiedContext(s)

\* the place of the item of that type and id in seq (0 when there is none)
Place(seq, type, id) ==
  IF \E i \in 1..Len(seq) : seq[i].type = type /\ seq[i].id = id
    THEN CHOOSE i \in 1..Len(seq) : seq[i].type = type /\ seq[i].id = id
    ELSE 0

WithId(seq, id) == {i \in 1..Len(seq) : seq[i].id = id}

(* ------------------------------------------------------------------ claims *)

\* C1: after clearAll() every category collection is empty,
\* getUnifiedContext() is the empty sequence, currentFile is null and
\* includeCurrentFile is back at its default, true.
C1_ClearAllResets ==
  lastOp.name = "clearAll" =>
    /\ \A k \in CollectionNames : state[k] = <<>>
    /\ getUnifiedContext(state) = <<>>
    /\ state.currentFile = null
    /\ state.includeCurrentFile = InitialState.includeCurrentFile

\* C2: whenever includeCurrentFile is true and currentFile is set, the first
\* element of getUnifiedContext() is the current file, whatever its createdAt,
\* and the rest is exactly the items of the six collections, newest first.
C2_CurrentFileFirst ==
  CurrentFileShown(state) =>
    LET unified == getUnifiedContext(state)
    IN /\ Len(unified) >= 1
       /\ unified[1] = state.currentFile
       /\ SameItems(Tail(unified), allValues(state))
       /\ Descending(Tail(unified))

\* C2 witness: the current file is shown ahead of two items, one of them newer
C2_Witness ==
  /\ CurrentFileShown(state)
  /\ TotalItems(state) >= 2
  /\ \E x \in Range(allValues(state)) : x.createdAt > state.currentFile.createdAt
  /\ lastOp.name \in AddNames

\* C3: every item held in a collection is in getUnifiedContext(), and of two
\* held items with different createdAt the newer one comes first (the
\* prepended current file set aside).
C3_NewestFirst ==
  LET r == Registry(state)
  IN /\ SameItems(r, allValues(state))
     /\ \A i, j \in 1..Len(r) : r[i].createdAt < r[j].createdAt => j < i

\* C3 witness: items of two categories, held in an order that is not newest first
C3_Witness ==
  /\ \E x, y \in Range(allValues(state)) : x.type # y.type /\ x.createdAt < y.createdAt
  /\ ~Descending(allValues(state))
  /\ lastOp.name \in AddNames

\* C4 as stated: after an add under an id the category already held, the
\* aggregate view holds exactly one item with that id.
C4_OneItemWithId ==
  (lastOp.name \in AddNames /\ lastOp.hit) =>
    Cardinality(WithId(getUnifiedContext(state), lastOp.item.id)) = 1

\* C4 amended: after an add under an id the category already held, the
\* collection holds exactly one item with that id, the item just added with
\* all its fields, and so do the items of that type in getUnifiedContext()
\* apart from the prepended current file.
C4_ReplacedInCategory ==
  (lastOp.name \in AddNames /\ lastOp.hit) =>
    LET coll == state[collectionMap[lastOp.item.type]]
        r == Registry(state)
    IN /\ Cardinality(WithId(coll, lastOp.item.id)) = 1
       /\ coll[IndexOf(coll, lastOp.item.id)] = lastOp.item
       /\ {i \in 1..Len(r) : r[i].id = lastOp.item.id /\ r[i].type = lastOp.item.type}
            = {Place(r, lastOp.item.type, lastOp.item.id)}
       /\ r[Place(r, lastOp.item.type, lastOp.item.id)] = lastOp.item

\* C4 witness: an add replaced an item while another item was held too
C4_Witness ==
  /\ lastOp.name \in AddNames
  /\ lastOp.hit
  /\ TotalItems(state) >= 2

\* C5: removeItem(type, id) for an id the collection does not hold leaves the
\* whole store as it was; for an id it holds, it removes that one entry of
\* that one collection and nothing else.
C5_RemoveFrame ==
  \A type \in ContextItemType : \A id \in RemoveIds(type) :
    LET key == collectionMap[type]
        after == removeItem(state, type, id)
        kept == {i \in 1..Len(state[key]) : state[key][i].id # id}
    IN /\ \A k \in (DOMAIN state) \ {key} : after[k] = state[k]
       /\ DOMAIN after = DOMAIN state
       /\ ~Has(state, type, id) => after = state
       /\ Has(state, type, id) =>
            /\ Len(after[key]) = Len(state[key]) - 1
            /\ Range(after[key]) = {state[key][i] : i \in kept}

\* C5 witness: removeItem was called with an id its collection did not hold,
\* while the store held items
C5_Witness ==
  /\ lastOp.name = "removeItem"
  /\ ~lastOp.hit
  /\ TotalItems(state) >= 2
  /\ state.currentFile # null

\* C6 as stated: of two items of one category with equal createdAt, the one
\* added first comes first in getUnifiedContext(), whatever their ids: an
\* item just added under a new id comes after every item of its category it
\* ties with.
C6_InsertionOrder ==
  (lastOp.name \in AddNames /\ ~lastOp.hit) =>
    LET r == Registry(state)
        x == lastOp.item
    IN \A y \in Range(state[collectionMap[x.type]]) :
         (y # x /\ y.createdAt = x.createdAt) =>
           Place(r, y.type, y.id) < Place(r, x.type, x.id)

\* C6 amended: two items of one category with equal createdAt come in
\* getUnifiedContext() in the order Object.values gives them (the sort is
\* stable): integer-like ids first, in ascending numeric order; an item added
\* under a new id that is not integer-like comes after the items the category
\* already held; an item added under an id already held takes the place of
\* the item it replaces.
C6_PropertyOrder ==
  /\ \A key \in CollectionNames :
       LET coll == state[key]
           r == Registry(state)
       IN \A i, j \in 1..Len(coll) :
            i < j =>
              /\ coll[i].createdAt = coll[j].createdAt =>
                   Place(r, coll[i].type, coll[i].id) < Place(r, coll[j].type, coll[j].id)
              /\ IsArrayIndex(coll[j].id) =>
                   /\ IsArrayIndex(coll[i].id)
                   /\ ToNumber(coll[i].id) < ToNumber(coll[j].id)
  /\ (lastOp.name \in AddNames /\ ~lastOp.hit /\ ~IsArrayIndex(lastOp.item.id)) =>
       LET coll == state[collectionMap[lastOp.item.type]]
       IN coll[Len(coll)] = lastOp.item
  /\ \A file \in FileItems :
       Has(state, "file", file.id) =>
         IndexOf(addFile(state, file).files, file.id) = IndexOf(state.files, file.id)
  /\ \A folder \in FolderItems :
       Has(state, "folder", folder.id) =>
         IndexOf(addFolder(state, folder).folders, folder.id)
           = IndexOf(state.folders, folder.id)

\* C6 witness: an add put an item ahead of an item of its category that was
\* there before and has the same createdAt
C6_Witness ==
  /\ lastOp.name \in AddNames
  /\ LET coll == state[collectionMap[lastOp.item.type]]
     IN \E j \in 1..Len(coll) :
          /\ IndexOf(coll, lastOp.item.id) < j
          /\ coll[j].createdAt = lastOp.item.createdAt

\* C7: two calls of toggleCurrentFile() in a row give back the state before
\* them: includeCurrentFile has its old value, currentFile and the six
\* collections are untouched.
C7_ToggleTwice ==
  /\ toggleCurrentFile(toggleCurrentFile(state)) = state
  /\ toggleCurrentFile(state).includeCurrentFile # state.includeCurrentFile

\* C7 witness: toggleCurrentFile() switched the flag off in a store that
\* holds items and a current file
C7_Witness ==
  /\ lastOp.name = "toggleCurrentFile"
  /\ ~state.includeCurrentFile
  /\ state.currentFile # null
  /\ TotalItems(state) >= 1

\* C8: every call of addSearchContext creates a new entry of searchResults:
\* its id was not a key of the collection before the call.
C8_SearchDistinct ==
  lastOp.name = "addSearchContext" => ~lastOp.hit

\* C9: setCurrentFile changes currentFile only; no add and no removeItem,
\* removeItem('file', id of the current file) included, changes currentFile;
\* a file held in the slot and in files is twice in getUnifiedContext() while
\* includeCurrentFile is true.
C9_SlotIndependent ==
  /\ \A file \in CurrentFiles :
       LET after == setCurrentFile(state, file)
       IN /\ after.currentFile = file
          /\ \A k \in (DOMAIN state) \ {"currentFile"} : after[k] = state[k]
  /\ \A file \in FileItems : addFile(state, file).currentFile = state.currentFile
  /\ \A folder \in FolderItems : addFolder(state, folder).currentFile = state.currentFile
  /\ \A video \in YouTubeItems : addYouTubeVideo(state, video).currentFile = state.currentFile
  /\ \A tag \in TagItems : addTag(state, tag).currentFile = state.currentFile
  /\ \A data \in ScreenpipeItems : addScreenpipe(state, data).currentFile = state.currentFile
  /\ \A search \in SearchItems :
       addSearchResults(state, search).currentFile = state.currentFile
  /\ \A type \in ContextItemType : \A id \in RemoveIds(type) \cup {state.currentFile.id} :
       removeItem(state, type, id).currentFile = state.currentFile
  /\ (CurrentFileShown(state) /\ Has(state, "file", state.currentFile.id)) =>
       LET unified == getUnifiedContext(state)
       IN Cardinality({i \in 1..Len(unified) :
                         unified[i].type = "file" /\ unified[i].id = state.currentFile.id}) = 2

\* C9 witness: the current file is shown and the files collection holds an
\* item with its id
C9_Witness ==
  /\ CurrentFileShown(state)
  /\ Has(state, "file", state.currentFile.id)
  /\ lastOp.name \in {"setCurrentFile", "addFile", "addFileContext", "removeItem"}

\* C10: once setupProject has passed its argument checks and stored the
\* token, the table holds a record of the user with token = vercelToken,
\* whether the user had a record before or not; and getVercelDeployment()
\* after a setupProject that returned gives that project's deploymentUrl and
\* projectId, not null.
C10_TokenRecorded ==
  \A c \in Users :
    /\ call[c].pc \in {"createProject", "createDeployment", "update", "returned"} =>
         \E i \in 1..Len(vercelTokens) :
           /\ vercelTokens[i].userId = c
           /\ vercelTokens[i].token = call[c].vercelToken
    /\ (call[c].pc = "returned" /\ deployment[c].called) =>
         deployment[c].value =
           [deploymentUrl |-> call[c].url, projectId |-> call[c].projectId]

====
